---- MODULE Spec2Model ----
(***************************************************************************)
(* A model of the conversational session engine of aichat:                *)
(*   src/config/session.rs  (Session)                                      *)
(*   src/config/role.rs     (Role)                                         *)
(* Strings are sequences of word tokens; the placeholder __INPUT__ is one  *)
(* token.  Option<T> is a sequence of length 0 (None) or 1 (Some(v)).      *)
(*   src/repl/mod.rs        (Repl::run, Repl::handle_line)                 *)
(* files is the set of paths that hold a session file; what a save writes  *)
(* is reported in result, the outcome of the last call.                    *)
(***************************************************************************)
EXTENDS Integers, Sequences, FiniteSets, TLC

VARIABLES model_id, temperature, messages, data_urls, compressed_messages,
          compress_threshold, name, path, dirty, compressing, role, model,
          files, result,
          pc, abort, already_ctrlc, line, ctrlc_seen

sessionVars == <<model_id, temperature, messages, data_urls,
                 compressed_messages, compress_threshold, name, path, dirty,
                 compressing, role, model>>

\* The REPL loop: its position, the shared abort signal, the already-Ctrl-C
\* flag, the line being dispatched, and where a Ctrl-C was seen since the
\* last successful line (a history variable).
replVars == <<pc, abort, already_ctrlc, line, ctrlc_seen>>

vars == <<model_id, temperature, messages, data_urls, compressed_messages,
          compress_threshold, name, path, dirty, compressing, role, model,
          files, result, pc, abort, already_ctrlc, line, ctrlc_seen>>

(***************************************************************************)
(* Bounds of the model.                                                    *)
(***************************************************************************)
MaxMessages == 4

MaxCompressed == 3

(***************************************************************************)
(* Option<T>                                                               *)
(***************************************************************************)
None == <<>>

Some(v) == <<v>>

is_none(o) == Len(o) = 0

is_some(o) == Len(o) = 1

unwrap_or(o, default) == IF Len(o) = 0 THEN default ELSE o[1]

(***************************************************************************)
(* String operations of the standard library, on token sequences.          *)
(***************************************************************************)
contains(s, pat) == \E i \in 1..Len(s) : s[i] = pat

RECURSIVE replace(_, _, _)
replace(s, pat, to) ==
    IF Len(s) = 0 THEN <<>>
    ELSE (IF Head(s) = pat THEN to ELSE <<Head(s)>>) \o replace(Tail(s), pat, to)

(***************************************************************************)
(* Messages (crate::client) and the user's input (super::Input).           *)
(***************************************************************************)
Text(s) == [kind |-> "Text", text |-> s]

Array(s, urls) == [kind |-> "Array", text |-> s, image_urls |-> urls]

Message(r, c) == [role |-> r, content |-> c]

System(s) == Message("System", Text(s))

User(c) == Message("User", c)

Assistant(s) == Message("Assistant", Text(s))

to_message_content(input) ==
    IF Len(input.medias) = 0 THEN Text(input.text)
    ELSE Array(input.text, input.medias)

\* merge_prompt(|v| prompt.replace(INPUT_PLACEHOLDER, v)): the closure is
\* applied to the text of the content.
merge_prompt(content, prompt, placeholder) ==
    [content EXCEPT !.text = replace(prompt, placeholder, content.text)]

\* A HashMap<String, String> is the set of its <<key, value>> entries.
extend(map, entries) ==
    entries \cup {e \in map : \A n \in entries : n[1] # e[1]}

PlainInput == [text |-> <<"hi">>, medias |-> <<>>, data_urls |-> {}]

MediaInput ==
    [text |-> <<"look">>, medias |-> <<"d1">>,
     data_urls |-> {<<"d1", "a.png">>}]

Inputs == {PlainInput, MediaInput}

Outputs == {<<"ok">>}

Summaries == {<<"summary">>}

(***************************************************************************)
(* Model (super::Model)                                                    *)
(***************************************************************************)
TokensPerMessage == 500

DefaultModel == [id |-> "default", max_input_tokens |-> None]

ChatModel == [id |-> "chat", max_input_tokens |-> Some(4000)]

Models == {DefaultModel, ChatModel}

total_tokens(m, msgs) == Len(msgs) * TokensPerMessage

(***************************************************************************)
(* Role                                                                    *)
(***************************************************************************)
INPUT_PLACEHOLDER == "__INPUT__"

EmbeddedRole ==
    [name |-> <<"ask">>, prompt |-> <<"answer", "__INPUT__", "briefly">>,
     temperature |-> None]

PlainRole ==
    [name |-> <<"coder">>, prompt |-> <<"write", "code">>, temperature |-> Some(1)]

Roles == {EmbeddedRole, PlainRole}

OptionRoles == {None} \cup {Some(r) : r \in Roles}

embedded(r) == contains(r.prompt, INPUT_PLACEHOLDER)

\* build_messages that never merges the input into the prompt.
build_messages_never_merges(r, input) ==
    <<System(r.prompt), User(to_message_content(input))>>

build_messages(r, input) ==
    LET content == to_message_content(input) IN
    IF embedded(r)
    THEN <<User(merge_prompt(content, r.prompt, INPUT_PLACEHOLDER))>>
    ELSE <<System(r.prompt), User(content)>>

(***************************************************************************)
(* Session: the persisted shape, construction and loading.                 *)
(***************************************************************************)
SessionNames == {"temp"}

SessionPaths == {"sessions/temp.yaml"}

Thresholds == {500, 1000, 1500}

Temperatures == {None, Some(1)}

IoOutcomes == {"ok", "serde_error", "write_error"}

\* serde_yaml::to_string(&self): the fields not marked #[serde(skip)],
\* model_id renamed to model.
to_yaml ==
    [model |-> model_id, temperature |-> temperature, messages |-> messages,
     data_urls |-> data_urls, compressed_messages |-> compressed_messages,
     compress_threshold |-> compress_threshold]

\* Session files left on disk by an earlier run of the program.
StoredSessions ==
    { [model |-> "chat", temperature |-> None,
       messages |-> <<User(Text(<<"hi">>)), Assistant(<<"ok">>)>>,
       data_urls |-> {}, compressed_messages |-> <<>>,
       compress_threshold |-> None],
      [model |-> "chat", temperature |-> Some(1),
       messages |-> <<System(<<"summary">>)>>,
       data_urls |-> {},
       compressed_messages |->
           <<System(<<"write", "code">>), User(Text(<<"hi">>)),
             Assistant(<<"ok">>)>>,
       compress_threshold |-> Some(1500)] }

new(n, m, r) ==
    /\ model_id = m.id
    /\ temperature = (IF is_some(r) THEN r[1].temperature ELSE None)
    /\ messages = <<>>
    /\ compressed_messages = <<>>
    /\ compress_threshold = None
    /\ data_urls = {}
    /\ name = n
    /\ path = None
    /\ dirty = FALSE
    /\ compressing = FALSE
    /\ role = r
    /\ model = m
    /\ files = {}
    /\ result = [op |-> "new", ok |-> TRUE]

load(n, p, stored) ==
    /\ model_id = stored.model
    /\ temperature = stored.temperature
    /\ messages = stored.messages
    /\ data_urls = stored.data_urls
    /\ compressed_messages = stored.compressed_messages
    /\ compress_threshold = stored.compress_threshold
    /\ name = n
    /\ path = Some(p)
    /\ dirty = FALSE
    /\ compressing = FALSE
    /\ role = None
    /\ model = DefaultModel
    /\ files = {p}
    /\ result = [op |-> "load", ok |-> TRUE]

\* Repl::run before its loop: a fresh abort signal, no Ctrl-C seen.
repl_start ==
    /\ pc = "top"
    /\ abort = "none"
    /\ already_ctrlc = FALSE
    /\ line = <<>>
    /\ ctrlc_seen = {}

Init ==
    /\ \/ \E n \in SessionNames, m \in Models, r \in OptionRoles :
              new(n, m, r)
       \/ \E n \in SessionNames, p \in SessionPaths,
              stored \in StoredSessions : load(n, p, stored)
    /\ repl_start

(***************************************************************************)
(* Session: read-only operations.                                          *)
(***************************************************************************)
tokens == total_tokens(model, messages)

is_empty == Len(messages) = 0

guard_save == is_some(path)

guard_empty == is_empty

\* need_compress with the 1000 floor applied to the supplied default instead
\* of the effective threshold.
need_compress_floor_on_default(current_compress_threshold) ==
    LET threshold == unwrap_or(compress_threshold, current_compress_threshold)
    IN  current_compress_threshold >= 1000 /\ tokens > threshold

need_compress_value(current_compress_threshold) ==
    LET threshold == unwrap_or(compress_threshold, current_compress_threshold)
    IN  threshold >= 1000 /\ tokens > threshold

\* build_emssages re-injecting the whole ledger instead of its last two
\* messages.
build_emssages_whole_ledger(input) ==
    LET len == Len(messages)
        clen == Len(compressed_messages)
        need_add_msg == ~(len = 0 /\ is_some(role))
        msgs == IF len = 0
                THEN (IF is_some(role) THEN build_messages(role[1], input)
                      ELSE messages)
                ELSE IF len = 1 /\ clen >= 2
                THEN messages \o compressed_messages
                ELSE messages
    IN  IF need_add_msg THEN Append(msgs, User(to_message_content(input)))
        ELSE msgs

\* build_emssages that ignores the bound role on an empty history.
build_emssages_ignores_role(input) ==
    LET len == Len(messages)
        clen == Len(compressed_messages)
        msgs == IF len = 1 /\ clen >= 2
                THEN messages \o SubSeq(compressed_messages, clen - 1, clen)
                ELSE messages
    IN  Append(msgs, User(to_message_content(input)))

build_emssages(input) ==
    LET len == Len(messages)
        clen == Len(compressed_messages)
        need_add_msg == ~(len = 0 /\ is_some(role))
        msgs == IF len = 0
                THEN (IF is_some(role) THEN build_messages(role[1], input)
                      ELSE messages)
                ELSE IF len = 1 /\ clen >= 2
                THEN messages \o SubSeq(compressed_messages, clen - 1, clen)
                ELSE messages
    IN  IF need_add_msg THEN Append(msgs, User(to_message_content(input)))
        ELSE msgs

need_compress(current_compress_threshold) ==
    /\ result' = [op |-> "need_compress", ok |-> TRUE,
                  arg |-> current_compress_threshold,
                  value |-> need_compress_value(current_compress_threshold)]
    /\ UNCHANGED <<sessionVars, files, replVars>>

\* build_emssages working on self.messages itself instead of a clone.
call_build_emssages_in_place(input) ==
    /\ result' = [op |-> "build_emssages", ok |-> TRUE, input |-> input,
                  value |-> build_emssages(input)]
    /\ messages' = build_emssages(input)
    /\ UNCHANGED <<model_id, temperature, data_urls, compressed_messages,
                   compress_threshold, name, path, dirty, compressing, role,
                   model, files, replVars>>

call_tokens ==
    /\ result' = [op |-> "tokens", ok |-> TRUE, value |-> tokens]
    /\ UNCHANGED <<sessionVars, files, replVars>>

call_build_emssages(input) ==
    /\ result' = [op |-> "build_emssages", ok |-> TRUE, input |-> input,
                  value |-> build_emssages(input)]
    /\ UNCHANGED <<sessionVars, files, replVars>>

(***************************************************************************)
(* Session: mutating operations.                                           *)
(***************************************************************************)
\* update_role without the guard_empty check.
update_role_unguarded(r) ==
    /\ temperature' = (IF is_some(r) THEN r[1].temperature ELSE None)
    /\ role' = r
    /\ result' = [op |-> "update_role", ok |-> TRUE, arg |-> r]
    /\ UNCHANGED <<model_id, messages, data_urls, compressed_messages,
                   compress_threshold, name, path, dirty, compressing,
                   model, files, replVars>>

update_role(r) ==
    IF ~guard_empty
    THEN /\ result' = [op |-> "update_role", ok |-> FALSE, arg |-> r]
         /\ UNCHANGED <<sessionVars, files, replVars>>
    ELSE /\ temperature' = (IF is_some(r) THEN r[1].temperature ELSE None)
         /\ role' = r
         /\ result' = [op |-> "update_role", ok |-> TRUE, arg |-> r]
         /\ UNCHANGED <<model_id, messages, data_urls, compressed_messages,
                        compress_threshold, name, path, dirty, compressing,
                        model, files, replVars>>

set_temperature(value) ==
    /\ temperature' = value
    /\ result' = [op |-> "set_temperature", ok |-> TRUE, arg |-> value]
    /\ UNCHANGED <<model_id, messages, data_urls, compressed_messages,
                   compress_threshold, name, path, dirty, compressing, role,
                   model, files, replVars>>

set_compress_threshold(value) ==
    /\ compress_threshold' = Some(value)
    /\ result' = [op |-> "set_compress_threshold", ok |-> TRUE, arg |-> value]
    /\ UNCHANGED <<model_id, temperature, messages, data_urls,
                   compressed_messages, name, path, dirty, compressing, role,
                   model, files, replVars>>

set_model(m) ==
    /\ model_id' = m.id
    /\ model' = m
    /\ result' = [op |-> "set_model", ok |-> TRUE, arg |-> m]
    /\ UNCHANGED <<temperature, messages, data_urls, compressed_messages,
                   compress_threshold, name, path, dirty, compressing, role,
                   files, replVars>>

\* compress that replaces the ledger by the live messages instead of
\* appending them to it.
\* compress that keeps the bound role.
compress_keeps_role(prompt) ==
    /\ Len(compressed_messages) + Len(messages) <= MaxCompressed
    /\ compressed_messages' = compressed_messages \o messages
    /\ messages' = <<System(prompt)>>
    /\ dirty' = TRUE
    /\ result' = [op |-> "compress", ok |-> TRUE, arg |-> prompt]
    /\ UNCHANGED <<model_id, temperature, data_urls, compress_threshold, name,
                   path, compressing, role, model, files, replVars>>

\* compress that moves only the exchanges to the ledger and drops an earlier
\* summary.
compress_drops_summary(prompt) ==
    LET is_exchange(m) == m.role # "System" IN
    /\ Len(compressed_messages) + Len(messages) <= MaxCompressed
    /\ compressed_messages' =
           compressed_messages \o SelectSeq(messages, is_exchange)
    /\ messages' = <<System(prompt)>>
    /\ role' = None
    /\ dirty' = TRUE
    /\ result' = [op |-> "compress", ok |-> TRUE, arg |-> prompt]
    /\ UNCHANGED <<model_id, temperature, data_urls, compress_threshold, name,
                   path, compressing, model, files, replVars>>

compress_overwrites_ledger(prompt) ==
    /\ Len(compressed_messages) + Len(messages) <= MaxCompressed
    /\ compressed_messages' = messages
    /\ messages' = <<System(prompt)>>
    /\ role' = None
    /\ dirty' = TRUE
    /\ result' = [op |-> "compress", ok |-> TRUE, arg |-> prompt]
    /\ UNCHANGED <<model_id, temperature, data_urls, compress_threshold, name,
                   path, compressing, model, files, replVars>>

compress(prompt) ==
    /\ Len(compressed_messages) + Len(messages) <= MaxCompressed
    /\ compressed_messages' = compressed_messages \o messages
    /\ messages' = <<System(prompt)>>
    /\ role' = None
    /\ dirty' = TRUE
    /\ result' = [op |-> "compress", ok |-> TRUE, arg |-> prompt]
    /\ UNCHANGED <<model_id, temperature, data_urls, compress_threshold, name,
                   path, compressing, model, files, replVars>>

\* add_message that pushes the plain User message also after the role's
\* framing (need_add_msg never cleared).
add_message_always_adds_user(input, output) ==
    LET framed == Len(messages) = 0 /\ is_some(role)
        m0 == IF framed THEN messages \o build_messages(role[1], input)
              ELSE messages
        m1 == Append(m0, User(to_message_content(input)))
    IN  /\ Len(m1) + 1 <= MaxMessages
        /\ data_urls' = extend(data_urls, input.data_urls)
        /\ messages' = Append(m1, Assistant(output))
        /\ role' = None
        /\ dirty' = TRUE
        /\ result' = [op |-> "add_message", ok |-> TRUE, input |-> input,
                      output |-> output]
        /\ UNCHANGED <<model_id, temperature, compressed_messages,
                       compress_threshold, name, path, compressing, model,
                       files, replVars>>

\* add_message that inserts the User message at the front of the history.
add_message_inserts_at_front(input, output) ==
    LET need_add_msg == ~(Len(messages) = 0 /\ is_some(role))
        m1 == IF need_add_msg
              THEN <<User(to_message_content(input))>> \o messages
              ELSE messages \o build_messages(role[1], input)
    IN  /\ Len(m1) + 1 <= MaxMessages
        /\ data_urls' = extend(data_urls, input.data_urls)
        /\ messages' = Append(m1, Assistant(output))
        /\ role' = None
        /\ dirty' = TRUE
        /\ result' = [op |-> "add_message", ok |-> TRUE, input |-> input,
                      output |-> output]
        /\ UNCHANGED <<model_id, temperature, compressed_messages,
                       compress_threshold, name, path, compressing, model,
                       files, replVars>>

add_message(input, output) ==
    LET need_add_msg == ~(Len(messages) = 0 /\ is_some(role))
        m1 == IF need_add_msg
              THEN Append(messages, User(to_message_content(input)))
              ELSE messages \o build_messages(role[1], input)
    IN  /\ Len(m1) + 1 <= MaxMessages
        /\ data_urls' = extend(data_urls, input.data_urls)
        /\ messages' = Append(m1, Assistant(output))
        /\ role' = None
        /\ dirty' = TRUE
        /\ result' = [op |-> "add_message", ok |-> TRUE, input |-> input,
                      output |-> output]
        /\ UNCHANGED <<model_id, temperature, compressed_messages,
                       compress_threshold, name, path, compressing, model,
                       files, replVars>>

\* clear_messages that leaves the ledger of compressed messages in place.
clear_messages_keeps_ledger ==
    /\ messages' = <<>>
    /\ data_urls' = {}
    /\ dirty' = TRUE
    /\ result' = [op |-> "clear_messages", ok |-> TRUE]
    /\ UNCHANGED <<model_id, temperature, compressed_messages,
                   compress_threshold, name, path, compressing, role, model,
                   files, replVars>>

clear_messages ==
    /\ messages' = <<>>
    /\ compressed_messages' = <<>>
    /\ data_urls' = {}
    /\ dirty' = TRUE
    /\ result' = [op |-> "clear_messages", ok |-> TRUE]
    /\ UNCHANGED <<model_id, temperature, compress_threshold, name, path,
                   compressing, role, model, files, replVars>>

\* save that clears dirty before the serialization and the write.
save_clears_dirty_early(session_path, io) ==
    IF ~dirty
    THEN /\ result' = [op |-> "save", ok |-> TRUE, io |-> "none",
                       wrote |-> None]
         /\ UNCHANGED <<sessionVars, files, replVars>>
    ELSE /\ path' = Some(session_path)
         /\ dirty' = FALSE
         /\ IF io = "ok"
            THEN /\ files' = files \cup {session_path}
                 /\ result' = [op |-> "save", ok |-> TRUE, io |-> io,
                               wrote |-> Some(to_yaml)]
            ELSE /\ files' = files
                 /\ result' = [op |-> "save", ok |-> FALSE, io |-> io,
                               wrote |-> None]
         /\ UNCHANGED <<model_id, temperature, messages, data_urls,
                        compressed_messages, compress_threshold, name,
                        compressing, role, model, replVars>>

save(session_path, io) ==
    IF ~dirty
    THEN /\ result' = [op |-> "save", ok |-> TRUE, io |-> "none",
                       wrote |-> None]
         /\ UNCHANGED <<sessionVars, files, replVars>>
    ELSE /\ path' = Some(session_path)
         /\ IF io = "ok"
            THEN /\ files' = files \cup {session_path}
                 /\ dirty' = FALSE
                 /\ result' = [op |-> "save", ok |-> TRUE, io |-> io,
                               wrote |-> Some(to_yaml)]
            ELSE /\ files' = files
                 /\ dirty' = dirty
                 /\ result' = [op |-> "save", ok |-> FALSE, io |-> io,
                               wrote |-> None]
         /\ UNCHANGED <<model_id, temperature, messages, data_urls,
                        compressed_messages, compress_threshold, name,
                        compressing, role, model, replVars>>

(***************************************************************************)
(* Session: renderings.                                                    *)
(***************************************************************************)
\* percent is kept in hundredths of a percent (it is rounded to two places).
tokens_and_percent ==
    LET max_input_tokens == unwrap_or(model.max_input_tokens, 0)
        percent == IF max_input_tokens = 0 THEN 0
                   ELSE (2 * tokens * 10000 + max_input_tokens)
                            \div (2 * max_input_tokens)
    IN  <<tokens, percent>>

export_value ==
    [path |-> path, model |-> model_id, temperature |-> temperature,
     total_tokens |-> tokens_and_percent[1],
     max_input_tokens |-> model.max_input_tokens,
     total_max |-> (IF tokens_and_percent[2] # 0
                    THEN Some(tokens_and_percent[2]) ELSE None),
     messages |-> messages]

RECURSIVE info_lines(_)
info_lines(msgs) ==
    IF Len(msgs) = 0 THEN <<>>
    ELSE LET m == Head(msgs)
             lines == CASE m.role = "System" ->
                             <<[render |-> m.content.text]>>
                        [] m.role = "Assistant" ->
                             <<[render |-> m.content.text], [blank |-> TRUE]>>
                        [] m.role = "User" ->
                             <<[prompt |-> name, input |-> m.content.text]>>
         IN  lines \o info_lines(Tail(msgs))

info_value ==
    LET items == (IF is_some(path) THEN <<[key |-> "path", value |-> path[1]]>>
                  ELSE <<>>)
              \o <<[key |-> "model", value |-> model.id]>>
              \o (IF is_some(temperature)
                  THEN <<[key |-> "temperature", value |-> temperature[1]]>>
                  ELSE <<>>)
              \o (IF is_some(compress_threshold)
                  THEN <<[key |-> "compress_threshold",
                          value |-> compress_threshold[1]]>>
                  ELSE <<>>)
              \o (IF is_some(model.max_input_tokens)
                  THEN <<[key |-> "max_input_tokens",
                          value |-> model.max_input_tokens[1]]>>
                  ELSE <<>>)
    IN  IF ~is_empty THEN items \o <<[blank |-> TRUE]>> \o info_lines(messages)
        ELSE items

export ==
    /\ result' = IF ~guard_save THEN [op |-> "export", ok |-> FALSE]
                 ELSE [op |-> "export", ok |-> TRUE, value |-> export_value]
    /\ UNCHANGED <<sessionVars, files, replVars>>

info ==
    /\ result' = [op |-> "info", ok |-> TRUE, value |-> info_value]
    /\ UNCHANGED <<sessionVars, files, replVars>>

echo_messages(input) ==
    /\ result' = [op |-> "echo_messages", ok |-> TRUE, input |-> input,
                  value |-> [yaml |-> build_emssages(input)]]
    /\ UNCHANGED <<sessionVars, files, replVars>>

(***************************************************************************)
(* The session under any sequence of calls.                                *)
(***************************************************************************)
Next ==
    \/ \E t \in Thresholds : need_compress(t)
    \/ call_tokens
    \/ \E i \in Inputs : call_build_emssages(i)
    \/ \E i \in Inputs : echo_messages(i)
    \/ export
    \/ info
    \/ \E r \in OptionRoles : update_role(r)
    \/ \E t \in Temperatures : set_temperature(t)
    \/ \E t \in Thresholds : set_compress_threshold(t)
    \/ \E m \in Models : set_model(m)
    \/ \E s \in Summaries : compress(s)
    \/ \E i \in Inputs, o \in Outputs : add_message(i, o)
    \/ clear_messages
    \/ \E p \in SessionPaths, io \in IoOutcomes : save(p, io)

Spec == Init /\ [][Next]_vars

\* The sessions Session::new creates, and the histories add_message,
\* compress, clear_messages and update_role make of them, with the requests
\* build_emssages builds on the way.
InitRequest ==
    /\ \E n \in SessionNames, m \in Models, r \in OptionRoles : new(n, m, r)
    /\ repl_start

NextRequest ==
    \/ \E i \in Inputs, o \in Outputs : add_message(i, o)
    \/ \E s \in Summaries : compress(s)
    \/ clear_messages
    \/ \E r \in OptionRoles : update_role(r)
    \/ \E i \in Inputs : call_build_emssages(i)

SpecRequest == InitRequest /\ [][NextRequest]_vars

(***************************************************************************)
(* The REPL loop (src/repl/mod.rs).  A line is a sequence of tokens in     *)
(* which " " is the space character.                                        *)
(***************************************************************************)
Whitespace == {" ", "\n"}

DotTokens == {".exit", ".help", ".clear", ".history", ".role", ".info",
              ".multiline", ".copy", ".set", ".prompt", ".bogus"}

RECURSIVE trim_start(_)
trim_start(s) ==
    IF Len(s) > 0 /\ Head(s) \in Whitespace THEN trim_start(Tail(s)) ELSE s

RECURSIVE trim_end(_)
trim_end(s) ==
    IF Len(s) > 0 /\ s[Len(s)] \in Whitespace
    THEN trim_end(SubSeq(s, 1, Len(s) - 1)) ELSE s

trim(s) == trim_end(trim_start(s))

starts_with(s, tok) == Len(s) > 0 /\ s[1] = tok

ends_with(s, tok) == Len(s) > 0 /\ s[Len(s)] = tok

\* line.starts_with('.'): the first token is a dot-word.
starts_with_dot(s) == Len(s) > 0 /\ s[1] \in DotTokens

\* str::split_once: Some((head, tail)) around the first separator, or None.
split_once(s, sep) ==
    IF contains(s, sep)
    THEN LET i == CHOOSE k \in 1..Len(s) :
                      s[k] = sep /\ \A j \in 1..(k - 1) : s[j] # sep
         IN  Some(<<SubSeq(s, 1, i - 1), SubSeq(s, i + 1, Len(s))>>)
    ELSE None

Lines ==
    { <<>>, <<"hello">>, <<"hello", " ", "world">>,
      <<".exit">>, <<".exit", " ", "now">>, <<".help">>,
      <<".clear", " ", "screen">>, <<".clear", " ", "history">>,
      <<".clear", " ", "role", " ">>, <<".clear">>, <<".history">>,
      <<".role", " ", "coder">>, <<".role">>, <<".info">>,
      <<".multiline", " ", "{", "hi", "}">>, <<".multiline", " ", "hi">>,
      <<".multiline">>, <<".copy">>, <<".set", " ", "temperature", " ", "1">>,
      <<".prompt", " ", "{", "be", " ", "brief", "}">>, <<".prompt">>,
      <<".bogus">> }

Signals ==
    {[kind |-> "Success", line |-> l] : l \in Lines}
        \cup {[kind |-> "CtrlC"], [kind |-> "CtrlD"], [kind |-> "Other"]}

AbortStates == {"none", "ctrlc", "ctrld"}

Outcomes == {"ok", "err"}

Replies == {<<>>, <<"ok">>}

CtrlCWarning == "(To exit, press Ctrl+C again or Ctrl+D or type .exit)"

UnknownCommand == "Unknown command. Type \".help\" for more information."

ReplCmd(kind, arg) == [cmd |-> kind, arg |-> arg]

\* Repl::handle_line: what it returns ("quit" for Ok(true), "ok" for
\* Ok(false), "err" for Err), what it displays and the command it hands to
\* the handler.  ext is the outcome of the one fallible call the line makes,
\* reply the handler's last reply.
handle_line_value(l, ext, reply) ==
    LET returned(r, msg, cmd) == [ret |-> r, dumped |-> msg, handled |-> cmd]
        said(msg) == returned("ok", Some(msg), None)
        handle(cmd) == returned(ext, None, Some(cmd))
        fallible(msg) == IF ext = "ok" THEN returned("ok", msg, None)
                         ELSE returned("err", None, None)
        parts == split_once(l, " ")
        cmd == IF is_some(parts) THEN parts[1][1] ELSE l
        args == IF is_some(parts) THEN Some(trim(parts[1][2])) ELSE None
        text == unwrap_or(args, <<>>)
        unbraced == IF starts_with(text, "{") /\ ends_with(text, "}")
                    THEN SubSeq(text, 2, Len(text) - 1) ELSE text
    IN  IF starts_with_dot(l)
        THEN CASE cmd = <<".exit">> -> returned("quit", None, None)
               [] cmd = <<".help">> -> said("help")
               [] cmd = <<".clear">> ->
                     (CASE args = Some(<<"screen">>) -> fallible(None)
                        [] args = Some(<<"history">>) -> fallible(Some(""))
                        [] args = Some(<<"role">>) ->
                              handle(ReplCmd("ClearRole", <<>>))
                        [] OTHER -> said(UnknownCommand))
               [] cmd = <<".history">> -> fallible(Some(""))
               [] cmd = <<".role">> ->
                     IF is_some(args) THEN handle(ReplCmd("SetRole", args[1]))
                     ELSE said("Usage: .role <name>")
               [] cmd = <<".info">> -> handle(ReplCmd("Info", <<>>))
               [] cmd = <<".multiline">> ->
                     IF Len(text) = 0
                     THEN said("Usage: .multiline { <your multiline content> }")
                     ELSE handle(ReplCmd("Submit", unbraced))
               [] cmd = <<".copy">> ->
                     IF Len(reply) = 0
                     THEN said("No reply messages that can be copied")
                     ELSE fallible(Some("Copied"))
               [] cmd = <<".set">> -> handle(ReplCmd("UpdateConfig", text))
               [] cmd = <<".prompt">> ->
                     IF Len(text) = 0
                     THEN said("Usage: .prompt { <your multiline content> }.")
                     ELSE handle(ReplCmd("Prompt", unbraced))
               [] OTHER -> said(UnknownCommand)
        ELSE handle(ReplCmd("Submit", l))

\* The head of the loop without the check of the ctrld flag.
loop_top_ignores_ctrld ==
    /\ pc = "top"
    /\ pc' = "read"
    /\ already_ctrlc' =
           (IF abort = "ctrlc" /\ ~already_ctrlc THEN TRUE ELSE already_ctrlc)
    /\ result' = [op |-> "loop", ok |-> TRUE, broke |-> FALSE]
    /\ UNCHANGED <<sessionVars, files, abort, line, ctrlc_seen>>

\* The head of the loop (lines 49-54).
loop_top ==
    /\ pc = "top"
    /\ IF abort = "ctrld"
       THEN /\ pc' = "done"
            /\ already_ctrlc' = already_ctrlc
            /\ result' = [op |-> "loop", ok |-> TRUE, broke |-> TRUE]
       ELSE /\ pc' = "read"
            /\ already_ctrlc' =
                   (IF abort = "ctrlc" /\ ~already_ctrlc THEN TRUE
                    ELSE already_ctrlc)
            /\ result' = [op |-> "loop", ok |-> TRUE, broke |-> FALSE]
    /\ UNCHANGED <<sessionVars, files, abort, line, ctrlc_seen>>

\* read_line that does not reset already_ctrlc on a successful line.
read_line_keeps_already_ctrlc(sig) ==
    /\ pc = "read"
    /\ CASE sig.kind = "Success" ->
              /\ already_ctrlc' = already_ctrlc
              /\ abort' = "none"
              /\ line' = sig.line
              /\ ctrlc_seen' = {}
              /\ pc' = "dispatch"
              /\ result' = [op |-> "read_line", ok |-> TRUE, sig |-> sig,
                            dumped |-> None, after_ctrlc |-> already_ctrlc]
         [] sig.kind = "CtrlC" ->
              /\ abort' = "ctrlc"
              /\ already_ctrlc' = TRUE
              /\ pc' = (IF ~already_ctrlc THEN "top" ELSE "done")
              /\ ctrlc_seen' = ctrlc_seen \cup {"editor"}
              /\ result' = [op |-> "read_line", ok |-> TRUE, sig |-> sig,
                            dumped |-> (IF ~already_ctrlc
                                        THEN Some(CtrlCWarning) ELSE None),
                            after_ctrlc |-> already_ctrlc]
              /\ UNCHANGED line
         [] sig.kind = "CtrlD" ->
              /\ abort' = "ctrld"
              /\ pc' = "done"
              /\ result' = [op |-> "read_line", ok |-> TRUE, sig |-> sig,
                            dumped |-> None, after_ctrlc |-> already_ctrlc]
              /\ UNCHANGED <<already_ctrlc, line, ctrlc_seen>>
         [] OTHER ->
              /\ pc' = "top"
              /\ result' = [op |-> "read_line", ok |-> TRUE, sig |-> sig,
                            dumped |-> None, after_ctrlc |-> already_ctrlc]
              /\ UNCHANGED <<abort, already_ctrlc, line, ctrlc_seen>>
    /\ UNCHANGED <<sessionVars, files>>

\* read_line that does not reset the abort signal on a successful line.
read_line_without_reset(sig) ==
    /\ pc = "read"
    /\ CASE sig.kind = "Success" ->
              /\ already_ctrlc' = FALSE
              /\ abort' = abort
              /\ line' = sig.line
              /\ ctrlc_seen' = {}
              /\ pc' = "dispatch"
              /\ result' = [op |-> "read_line", ok |-> TRUE, sig |-> sig,
                            dumped |-> None, after_ctrlc |-> already_ctrlc]
         [] sig.kind = "CtrlC" ->
              /\ abort' = "ctrlc"
              /\ already_ctrlc' = TRUE
              /\ pc' = (IF ~already_ctrlc THEN "top" ELSE "done")
              /\ ctrlc_seen' = ctrlc_seen \cup {"editor"}
              /\ result' = [op |-> "read_line", ok |-> TRUE, sig |-> sig,
                            dumped |-> (IF ~already_ctrlc
                                        THEN Some(CtrlCWarning) ELSE None),
                            after_ctrlc |-> already_ctrlc]
              /\ UNCHANGED line
         [] sig.kind = "CtrlD" ->
              /\ abort' = "ctrld"
              /\ pc' = "done"
              /\ result' = [op |-> "read_line", ok |-> TRUE, sig |-> sig,
                            dumped |-> None, after_ctrlc |-> already_ctrlc]
              /\ UNCHANGED <<already_ctrlc, line, ctrlc_seen>>
         [] OTHER ->
              /\ pc' = "top"
              /\ result' = [op |-> "read_line", ok |-> TRUE, sig |-> sig,
                            dumped |-> None, after_ctrlc |-> already_ctrlc]
              /\ UNCHANGED <<abort, already_ctrlc, line, ctrlc_seen>>
    /\ UNCHANGED <<sessionVars, files>>

\* read_line and the arms of the match that do not dispatch (lines 55-59 and
\* 72-86); a successful line is reset and handed to handle_line.
read_line(sig) ==
    /\ pc = "read"
    /\ CASE sig.kind = "Success" ->
              /\ already_ctrlc' = FALSE
              /\ abort' = "none"
              /\ line' = sig.line
              /\ ctrlc_seen' = {}
              /\ pc' = "dispatch"
              /\ result' = [op |-> "read_line", ok |-> TRUE, sig |-> sig,
                            dumped |-> None, after_ctrlc |-> already_ctrlc]
         [] sig.kind = "CtrlC" ->
              /\ abort' = "ctrlc"
              /\ already_ctrlc' = TRUE
              /\ pc' = (IF ~already_ctrlc THEN "top" ELSE "done")
              /\ ctrlc_seen' = ctrlc_seen \cup {"editor"}
              /\ result' = [op |-> "read_line", ok |-> TRUE, sig |-> sig,
                            dumped |-> (IF ~already_ctrlc
                                        THEN Some(CtrlCWarning) ELSE None),
                            after_ctrlc |-> already_ctrlc]
              /\ UNCHANGED line
         [] sig.kind = "CtrlD" ->
              /\ abort' = "ctrld"
              /\ pc' = "done"
              /\ result' = [op |-> "read_line", ok |-> TRUE, sig |-> sig,
                            dumped |-> None, after_ctrlc |-> already_ctrlc]
              /\ UNCHANGED <<already_ctrlc, line, ctrlc_seen>>
         [] OTHER ->
              /\ pc' = "top"
              /\ result' = [op |-> "read_line", ok |-> TRUE, sig |-> sig,
                            dumped |-> None, after_ctrlc |-> already_ctrlc]
              /\ UNCHANGED <<abort, already_ctrlc, line, ctrlc_seen>>
    /\ UNCHANGED <<sessionVars, files>>

\* handle_line whose error leaves Repl::run (as with the ? operator).
handle_line_propagates_error(ext, reply, during) ==
    /\ pc = "dispatch"
    /\ LET v == handle_line_value(line, ext, reply)
           submitted == v.handled # None /\ v.handled[1].cmd = "Submit"
       IN  /\ abort' = (IF submitted THEN during ELSE abort)
           /\ ctrlc_seen' = (IF submitted /\ during = "ctrlc"
                             THEN ctrlc_seen \cup {"dispatch"}
                             ELSE ctrlc_seen)
           /\ pc' = (IF v.ret \in {"quit", "err"} THEN "done" ELSE "top")
           /\ result' = [op |-> "handle_line", ok |-> v.ret # "err",
                         quit |-> v.ret = "quit", handled |-> v.handled,
                         dumped |-> (IF v.ret = "err" THEN Some("error")
                                     ELSE v.dumped)]
    /\ UNCHANGED <<sessionVars, files, already_ctrlc, line>>

\* The dispatch of a successful line (lines 60-70).  While the handler runs
\* a Submit the exchange shares the abort signal, which may be ctrlc or ctrld
\* when the call returns.
handle_line(ext, reply, during) ==
    /\ pc = "dispatch"
    /\ LET v == handle_line_value(line, ext, reply)
           submitted == v.handled # None /\ v.handled[1].cmd = "Submit"
       IN  /\ abort' = (IF submitted THEN during ELSE abort)
           /\ ctrlc_seen' = (IF submitted /\ during = "ctrlc"
                             THEN ctrlc_seen \cup {"dispatch"}
                             ELSE ctrlc_seen)
           /\ pc' = (IF v.ret = "quit" THEN "done" ELSE "top")
           /\ result' = [op |-> "handle_line", ok |-> v.ret # "err",
                         quit |-> v.ret = "quit", handled |-> v.handled,
                         dumped |-> (IF v.ret = "err" THEN Some("error")
                                     ELSE v.dumped)]
    /\ UNCHANGED <<sessionVars, files, already_ctrlc, line>>

InitRepl ==
    /\ \E n \in SessionNames : new(n, DefaultModel, None)
    /\ repl_start

NextRepl ==
    \/ loop_top
    \/ \E sig \in Signals : read_line(sig)
    \/ \E ext \in Outcomes, reply \in Replies, during \in AbortStates :
           handle_line(ext, reply, during)

SpecRepl == InitRepl /\ [][NextRepl]_vars

(***************************************************************************)
(* Role: parameterized prompts (src/config/role.rs).  A role name is a     *)
(* token sequence in which ":" is the separator.                           *)
(***************************************************************************)
\* format!("__ARG{}__", i)
arg_placeholder(i) == "__ARG" \o ToString(i) \o "__"

\* str::split: the segments between the separators.
RECURSIVE split(_, _)
split(s, sep) ==
    LET parts == split_once(s, sep) IN
    IF is_some(parts) THEN <<parts[1][1]>> \o split(parts[1][2], sep)
    ELSE <<s>>

\* The loop of complete_prompt_args from its i-th argument on (i counts from
\* 0 as enumerate does).
RECURSIVE replace_args(_, _, _)
replace_args(prompt, args, i) ==
    IF i >= Len(args) THEN prompt
    ELSE replace_args(replace(prompt, arg_placeholder(i + 1), args[i + 1]),
                      args, i + 1)

\* The same loop with placeholders numbered from 0.
complete_prompt_args_zero_based(prompt, role_name) ==
    LET RECURSIVE passes(_, _, _)
        passes(p, args, i) ==
            IF i >= Len(args) THEN p
            ELSE passes(replace(p, arg_placeholder(i), args[i + 1]),
                        args, i + 1)
    IN  passes(trim(prompt), Tail(split(role_name, ":")), 0)

complete_prompt_args(prompt, role_name) ==
    replace_args(trim(prompt), Tail(split(role_name, ":")), 0)

RoleTemplates ==
    { EmbeddedRole, PlainRole,
      [name |-> <<"convert">>, prompt |-> <<"convert", "__ARG1__">>,
       temperature |-> None],
      [name |-> <<"convert">>,
       prompt |-> <<"convert", "__ARG1__", "to", "__ARG2__">>,
       temperature |-> None],
      [name |-> <<"translate">>,
       prompt |-> <<" ", "translate", "__INPUT__", "to", "__ARG1__", "\n">>,
       temperature |-> Some(1)] }

RoleNames ==
    { <<"convert">>, <<"convert", ":", "foo">>,
      <<"convert", ":", "foo", ":", "bar">>,
      <<"convert", ":", "foo", ":", "bar", ":", "baz">>,
      <<"convert", ":", ":", "bar">>,
      <<"convert", ":", "__ARG2__", ":", "bar">>,
      <<"convert", ":", "__INPUT__">> }

\* Role::complete_prompt_args on the role held in role.
role_complete_prompt_args(role_name) ==
    /\ role # None
    /\ role' = Some([role[1] EXCEPT
                        !.name = role_name,
                        !.prompt = complete_prompt_args(role[1].prompt,
                                                        role_name)])
    /\ result' = [op |-> "complete_prompt_args", ok |-> TRUE,
                  prompt |-> role[1].prompt, name |-> role_name,
                  value |-> complete_prompt_args(role[1].prompt, role_name)]
    /\ UNCHANGED <<model_id, temperature, messages, data_urls,
                   compressed_messages, compress_threshold, name, path, dirty,
                   compressing, model, files, replVars>>

role_embedded ==
    /\ role # None
    /\ result' = [op |-> "embedded", ok |-> TRUE, value |-> embedded(role[1])]
    /\ UNCHANGED <<sessionVars, files, replVars>>

role_build_messages(input) ==
    /\ role # None
    /\ result' = [op |-> "build_messages", ok |-> TRUE, input |-> input,
                  embedded |-> embedded(role[1]),
                  value |-> build_messages(role[1], input)]
    /\ UNCHANGED <<sessionVars, files, replVars>>

\* A role taken from the configuration and bound to a new session.
InitRole ==
    /\ \E n \in SessionNames, r \in RoleTemplates :
           new(n, DefaultModel, Some(r))
    /\ repl_start

NextRole ==
    \/ \E n \in RoleNames : role_complete_prompt_args(n)
    \/ role_embedded
    \/ \E i \in Inputs : role_build_messages(i)

SpecRole == InitRole /\ [][NextRole]_vars

(***************************************************************************)
(* Properties.                                                             *)
(***************************************************************************)
IsPrefix(s, t) == Len(s) <= Len(t) /\ SubSeq(t, 1, Len(s)) = s

\* The post-compression special case of build_emssages.
AfterCompression == Len(messages) = 1 /\ Len(compressed_messages) >= 2

\* C1: after compress(summary) the live history is exactly [System(summary)],
\* compressed_messages is its previous value followed by the pre-compression
\* live messages in order, the bound role is None and dirty is true.
C1_CompressContract ==
    [][result'.op = "compress" =>
          /\ messages' = <<System(result'.arg)>>
          /\ compressed_messages' = compressed_messages \o messages
          /\ role' = None
          /\ dirty' = TRUE]_vars

\* A second compression: the ledger holds an earlier summary and the live
\* history is the new summary.
C1_Witness ==
    /\ result.op = "compress"
    /\ messages = <<System(result.arg)>>
    /\ Len(compressed_messages) >= 3
    /\ \E i \in 1..Len(compressed_messages) :
           /\ compressed_messages[i].role = "System"
           /\ compressed_messages[i].content.text \in Summaries

\* C2: add_message on an empty history with a bound role appends the role's
\* build_messages(input) and Assistant(output): 2 messages (merged User,
\* Assistant) for an embedded role, 3 (System, User, Assistant) otherwise;
\* with no role or a non-empty history it appends User(input),
\* Assistant(output).  Afterwards the role is None and dirty is true.
C2_AddMessageContract ==
    [][result'.op = "add_message" =>
          LET input == result'.input
              output == result'.output
              content == to_message_content(input)
              framed == Len(messages) = 0 /\ role # None
          IN  /\ framed /\ embedded(role[1]) =>
                    /\ Len(messages') = 2
                    /\ messages'[1] =
                          User([content EXCEPT !.text =
                                   replace(role[1].prompt, INPUT_PLACEHOLDER,
                                           content.text)])
                    /\ messages'[2] = Assistant(output)
              /\ framed /\ ~embedded(role[1]) =>
                    messages' = <<System(role[1].prompt), User(content),
                                  Assistant(output)>>
              /\ framed =>
                    messages' = build_messages(role[1], input)
                                    \o <<Assistant(output)>>
              /\ ~framed =>
                    messages' = messages \o <<User(content), Assistant(output)>>
              /\ role' = None
              /\ dirty' = TRUE]_vars

\* The first exchange of a session bound to the embedded role.
C2_Witness ==
    /\ result.op = "add_message"
    /\ Len(messages) = 2
    /\ messages[1].role = "User"
    /\ contains(messages[1].content.text, "answer")
    /\ ~contains(messages[1].content.text, INPUT_PLACEHOLDER)
    /\ messages[2] = Assistant(result.output)
    /\ role = None

\* C3: add_message never removes or reorders prior messages: the live
\* history before it is a prefix of the live history after it, and
\* compressed_messages is unchanged.
C3_AddMessageAppendOnly ==
    [][result'.op = "add_message" =>
          /\ IsPrefix(messages, messages')
          /\ Len(messages') > Len(messages)
          /\ compressed_messages' = compressed_messages]_vars

\* An exchange added after a compression, on top of the summary.
C3_Witness ==
    /\ result.op = "add_message"
    /\ Len(messages) >= 3
    /\ messages[1].role = "System"
    /\ messages[1].content.text \in Summaries
    /\ Len(compressed_messages) >= 2

\* C4: with exactly one live message and at least two compressed messages
\* build_emssages(input) is the live message, the two most recent compressed
\* messages in order, then User(input); with fewer than two compressed
\* messages or more than one live message the result is the live history
\* followed only by the new framing, nothing of the ledger is injected.
C4_BuildAfterCompression ==
    result.op = "build_emssages" =>
        LET value == result.value
            n == Len(compressed_messages)
            new_user == User(to_message_content(result.input))
        IN  /\ (Len(messages) = 1 /\ n >= 2) =>
                  value = <<messages[1], compressed_messages[n - 1],
                            compressed_messages[n], new_user>>
            /\ (n < 2 \/ Len(messages) > 1) =>
                  /\ IsPrefix(messages, value)
                  /\ Len(value) = Len(messages) +
                        (IF Len(messages) = 0 /\ role # None
                         THEN Len(build_messages(role[1], result.input))
                         ELSE 1)
                  /\ value[Len(value)].role = "User"

\* A request built right after a compression whose ledger holds more than
\* the two messages that are re-injected.
C4_Witness ==
    /\ result.op = "build_emssages"
    /\ Len(messages) = 1
    /\ Len(compressed_messages) >= 3
    /\ Len(result.value) = 4
    /\ result.value[2] # compressed_messages[1]

\* C5: build_emssages does not mutate the session and, outside the
\* post-compression special case, build_emssages(input) followed by
\* Assistant(output) is the live history add_message(input, output) produces.
C5_BuildAgreesWithAdd ==
    [][/\ result'.op = "build_emssages" => UNCHANGED <<sessionVars, files>>
       /\ (result'.op = "add_message" /\ ~AfterCompression) =>
              messages' = build_emssages(result'.input)
                              \o <<Assistant(result'.output)>>]_vars

\* The first exchange of a session bound to the non-embedded role.
C5_Witness ==
    /\ result.op = "add_message"
    /\ Len(messages) = 3
    /\ messages[1] = System(PlainRole.prompt)
    /\ messages[2] = User(to_message_content(result.input))

\* C6: update_role(role) succeeds exactly when the live history is empty; on
\* failure no session field changes; on success the bound role is the given
\* role and the temperature is that role's (None for no role).
C6_UpdateRoleGuard ==
    [][result'.op = "update_role" =>
          LET r == result'.arg IN
          /\ result'.ok <=> Len(messages) = 0
          /\ ~result'.ok => UNCHANGED <<sessionVars, files>>
          /\ result'.ok =>
                /\ role' = r
                /\ temperature' = (IF r = None THEN None ELSE r[1].temperature)
                /\ UNCHANGED <<model_id, messages, data_urls,
                               compressed_messages, compress_threshold, name,
                               path, dirty, compressing, model>>]_vars

\* A rejected update_role whose role carries another temperature than the
\* session's.
C6_Witness ==
    /\ result.op = "update_role"
    /\ ~result.ok
    /\ Len(messages) > 0
    /\ result.arg # None
    /\ result.arg[1].temperature # temperature
    /\ role = None

\* C7: need_compress(default) uses the session's compress_threshold when set
\* and the default otherwise, and is true exactly when that threshold is at
\* least 1000 and tokens() is strictly greater; a session threshold below
\* 1000 gives false whatever the default and the token count.
C7_NeedCompress ==
    result.op = "need_compress" =>
        LET effective == IF compress_threshold # None
                         THEN compress_threshold[1] ELSE result.arg
        IN  /\ result.value = (effective >= 1000 /\ tokens > effective)
            /\ (compress_threshold # None /\ compress_threshold[1] < 1000)
                   => result.value = FALSE

\* A session threshold of 500 with a default of at least 1000 and more
\* tokens than both.
C7_Witness ==
    /\ result.op = "need_compress"
    /\ compress_threshold = Some(500)
    /\ result.arg >= 1000
    /\ tokens > result.arg
    /\ result.value = FALSE

\* C8: dirty is set on every mutation: after any operation that changes a
\* persisted field (update_role, set_temperature, set_compress_threshold and
\* set_model included) dirty is true.
C8_DirtyOnEveryMutation ==
    [][to_yaml' # to_yaml => dirty']_vars

\* C9: dirty goes from true to false only in a save whose write succeeded;
\* save on a non-dirty session writes nothing and succeeds; a save whose
\* serialization or write fails returns the error and leaves dirty true.
C9_DirtyClearedOnlyBySave ==
    [][/\ (dirty /\ ~dirty') =>
              /\ result'.op = "save"
              /\ result'.ok
              /\ result'.io = "ok"
              /\ result'.wrote = Some(to_yaml)
              /\ files' # {}
       /\ (result'.op = "save" /\ ~dirty) =>
              /\ result'.ok
              /\ result'.wrote = None
              /\ files' = files
              /\ ~dirty'
       /\ (result'.op = "save" /\ dirty /\ result'.io # "ok") =>
              /\ ~result'.ok
              /\ result'.wrote = None
              /\ files' = files
              /\ dirty']_vars

\* A save that failed and left the session dirty.
C9_Witness ==
    /\ result.op = "save"
    /\ ~result.ok
    /\ dirty
    /\ Len(messages) > 0

\* C10: export fails with the guard error on a session that was never saved
\* to a path nor loaded from one, also after a failed or a no-op save; info
\* never fails.
C10_ExportGuardsUnsaved ==
    /\ (result.op = "export" /\ files = {}) => ~result.ok
    /\ result.op = "info" => result.ok

\* C11: clear_messages empties messages, compressed_messages and data_urls
\* together and sets dirty, and leaves the bound role, temperature,
\* compress_threshold, model, name and path unchanged.
C11_ClearMessagesFrame ==
    [][result'.op = "clear_messages" =>
          /\ messages' = <<>>
          /\ compressed_messages' = <<>>
          /\ data_urls' = {}
          /\ dirty' = TRUE
          /\ UNCHANGED <<role, temperature, compress_threshold, model,
                         model_id, name, path>>]_vars

\* A cleared session that keeps a bound role, a temperature, a threshold and
\* the path of an earlier save.
C11_Witness ==
    /\ result.op = "clear_messages"
    /\ messages = <<>>
    /\ compressed_messages = <<>>
    /\ data_urls = {}
    /\ dirty
    /\ role # None
    /\ temperature # None
    /\ compress_threshold # None
    /\ path # None

\* C12: messages and compressed_messages change only in add_message, compress
\* and clear_messages; update_role, save, the setters, need_compress, tokens,
\* build_emssages, echo_messages, export and info leave both unchanged.
C12_MessagesFrame ==
    [][result'.op \in {"update_role", "save", "set_temperature",
                       "set_compress_threshold", "set_model", "need_compress",
                       "tokens", "build_emssages", "echo_messages", "export",
                       "info"}
          => UNCHANGED <<messages, compressed_messages>>]_vars

\* A request built for a session that has both a live history and a ledger.
C12_Witness ==
    /\ result.op = "build_emssages"
    /\ Len(messages) = 3
    /\ Len(compressed_messages) = 2
    /\ Len(result.value) = 4

\* C19: in every reachable state a bound role implies an empty live history.
C19_RoleImpliesEmptyHistory ==
    role # None => Len(messages) = 0

\* A role bound again to a session emptied by clear_messages.
C19_Witness ==
    /\ result.op = "update_role"
    /\ result.ok
    /\ role # None
    /\ Len(messages) = 0
    /\ dirty

\* C20: without clear_messages the concatenation of compressed_messages and
\* messages only grows by appending at its end.
C20_NoMessageLost ==
    [][result'.op # "clear_messages" =>
          IsPrefix(compressed_messages \o messages,
                   compressed_messages' \o messages')]_vars

\* An exchange added after two compressions: the first summary sits in the
\* ledger behind the first exchange.
C20_Witness ==
    /\ result.op = "add_message"
    /\ Len(compressed_messages) = 3
    /\ compressed_messages[1].role = "User"
    /\ compressed_messages[3].role = "System"
    /\ Len(messages) = 3
    /\ messages[1].role = "System"

\* A step of the loop in which the line editor returns Ctrl-C.
CtrlCSignal ==
    pc = "read" /\ result'.op = "read_line" /\ result'.sig.kind = "CtrlC"

\* C13 as claimed: a Ctrl-C returned by the line editor ends the loop only
\* when the line editor returned an earlier Ctrl-C with no successful line in
\* between; otherwise it emits the warning and the loop goes on, whatever
\* happened to the abort flag during the dispatch of the last line.
C13_CtrlCNeedsEarlierSignal ==
    [][CtrlCSignal =>
          /\ pc' = "done" => "editor" \in ctrlc_seen
          /\ "editor" \notin ctrlc_seen =>
                 (pc' = "top" /\ result'.dumped = Some(CtrlCWarning))]_vars

\* C13 as amended: a Ctrl-C returned by the line editor ends the loop only
\* when a Ctrl-C was seen since the last successful line was read, either
\* returned by the line editor or left on the abort flag by the dispatch of
\* that line; the first Ctrl-C in that sense emits the warning and the loop
\* goes on reading.
C13_CtrlCNeedsEarlierCtrlC ==
    [][CtrlCSignal =>
          /\ pc' = "done" => ctrlc_seen # {}
          /\ ctrlc_seen = {} =>
                 (pc' = "top" /\ result'.dumped = Some(CtrlCWarning))]_vars

\* The loop ended by the only Ctrl-C the line editor returned after a line
\* whose dispatch left ctrlc on the abort flag.
C13_Witness ==
    /\ pc = "done"
    /\ result.op = "read_line"
    /\ result.sig.kind = "CtrlC"
    /\ ctrlc_seen = {"dispatch", "editor"}
    /\ result.dumped = None

\* C14: a Ctrl-D from the line editor sets the abort flag to ctrld and ends
\* the loop without dispatching; an abort flag that is ctrld when a
\* dispatched line has returned ends the loop before another line is read.
C14_CtrlDTerminates ==
    [][/\ (pc = "read" /\ result'.op = "read_line"
              /\ result'.sig.kind = "CtrlD")
           => (abort' = "ctrld" /\ pc' = "done")
       /\ (pc = "dispatch" /\ abort' = "ctrld" /\ pc' # "done")
           => pc' = "top"
       /\ (pc = "top" /\ abort = "ctrld") => pc' = "done"]_vars

\* The loop ended at its head because the dispatched Submit returned with
\* the abort flag ctrld.
C14_Witness ==
    /\ pc = "done"
    /\ result.op = "loop"
    /\ result.broke
    /\ abort = "ctrld"
    /\ Len(line) > 0

\* C15: when handle_line starts for a line the abort signal is none and
\* already_ctrlc is false, whatever Ctrl-C events came before.
C15_LineResetsFlags ==
    pc = "dispatch" => (abort = "none" /\ ~already_ctrlc)

\* A line read right after a Ctrl-C warning.
C15_Witness ==
    /\ pc = "dispatch"
    /\ result.op = "read_line"
    /\ result.sig.kind = "Success"
    /\ result.after_ctrlc
    /\ abort = "none"
    /\ ~already_ctrlc

\* C16: an error returned by handle_line, or an unknown dot-command, is
\* displayed and the loop goes back to its head; the loop ends only on .exit,
\* on Ctrl-D or an abort flag equal to ctrld, or on a repeated Ctrl-C.
C16_ErrorsDoNotTerminate ==
    [][/\ (result'.op = "handle_line" /\ ~result'.ok)
           => (pc' = "top" /\ result'.dumped = Some("error"))
       /\ (result'.op = "handle_line" /\ starts_with_dot(line)
              /\ line[1] \notin {".exit", ".help", ".clear", ".history",
                                 ".role", ".info", ".multiline", ".copy",
                                 ".set", ".prompt"})
           => (pc' = "top" /\ result'.dumped = Some(UnknownCommand))
       /\ (pc # "done" /\ pc' = "done")
           => \/ result'.op = "handle_line" /\ result'.quit
                     /\ line[1] = ".exit"
              \/ result'.op = "read_line" /\ result'.sig.kind = "CtrlD"
              \/ result'.op = "loop" /\ abort = "ctrld"
              \/ result'.op = "read_line" /\ result'.sig.kind = "CtrlC"
                     /\ already_ctrlc]_vars

\* A failed Submit whose error was displayed, with the loop back at its head.
C16_Witness ==
    /\ pc = "top"
    /\ result.op = "handle_line"
    /\ ~result.ok
    /\ result.handled # None
    /\ result.handled[1].cmd = "Submit"
    /\ result.dumped = Some("error")
    /\ abort = "none"

\* The prompt of the role with its input placeholder replaced by the text
\* of the content.
MergedContent(r, content) ==
    [content EXCEPT !.text = replace(r.prompt, INPUT_PLACEHOLDER, content.text)]

\* C17: for a role whose prompt contains the input placeholder build_messages
\* returns one User message, the prompt with the placeholder replaced by the
\* input; otherwise it returns [System(prompt), User(input)]; embedded() is
\* true exactly in the first case, also after complete_prompt_args.
C17_BuildMessages ==
    /\ result.op = "build_messages" =>
          LET r == role[1]
              content == to_message_content(result.input)
          IN  /\ result.embedded = contains(r.prompt, INPUT_PLACEHOLDER)
              /\ contains(r.prompt, INPUT_PLACEHOLDER) =>
                    /\ result.value = <<User(MergedContent(r, content))>>
                    /\ ~contains(result.value[1].content.text,
                                 INPUT_PLACEHOLDER)
              /\ ~contains(r.prompt, INPUT_PLACEHOLDER) =>
                    result.value = <<System(r.prompt), User(content)>>
    /\ result.op = "embedded" =>
          result.value = contains(role[1].prompt, INPUT_PLACEHOLDER)

\* A role that became embedded when complete_prompt_args put the input
\* placeholder into its prompt.
C17_Witness ==
    /\ result.op = "build_messages"
    /\ role[1].name = <<"convert", ":", "__INPUT__">>
    /\ role[1].prompt = <<"convert", "__INPUT__">>
    /\ Len(result.value) = 1
    /\ result.value[1].role = "User"

\* The arguments of a role name.
NameArgs(role_name) == Tail(split(role_name, ":"))

\* Every __ARGi__ of s with i <= Len(args) replaced by args[i], at once.
RECURSIVE Substituted(_, _)
Substituted(s, args) ==
    IF Len(s) = 0 THEN <<>>
    ELSE LET hits == {i \in 1..Len(args) : Head(s) = arg_placeholder(i)}
         IN  (IF hits = {} THEN <<Head(s)>> ELSE args[CHOOSE i \in hits : TRUE])
                 \o Substituted(Tail(s), args)

\* Every __ARGj__ of s with after < j <= Len(args) replaced by args[j], in
\* which the placeholders of a higher index are replaced the same way.
RECURSIVE Resolved(_, _, _)
Resolved(s, args, after) ==
    IF Len(s) = 0 THEN <<>>
    ELSE LET hits == {j \in (after + 1)..Len(args) :
                          Head(s) = arg_placeholder(j)}
         IN  (IF hits = {} THEN <<Head(s)>>
              ELSE LET j == CHOOSE k \in hits : TRUE
                   IN  Resolved(args[j], args, j))
                 \o Resolved(Tail(s), args, after)

\* C18 as claimed: complete_prompt_args(prompt, base:a1:...:an) is the prompt
\* in which every __ARGi__ with i <= n is replaced by ai, the other
\* placeholders left untouched and the other arguments ignored.
C18_ArgsSubstituted ==
    result.op = "complete_prompt_args" =>
        result.value = Substituted(result.prompt, NameArgs(result.name))

\* C18 as amended: the result is the prompt without its leading and trailing
\* whitespace in which every __ARGi__ with i <= n is replaced by ai, the
\* placeholders __ARGj__ with i < j <= n inside ai being replaced in turn by
\* aj; other placeholders are left untouched, other arguments ignored.
C18_ArgsSubstitutedInTurn ==
    result.op = "complete_prompt_args" =>
        LET args == NameArgs(result.name) IN
        /\ result.value = Resolved(trim(result.prompt), args, 0)
        /\ (\A i \in 1..Len(args), j \in 1..Len(args) :
                ~contains(args[i], arg_placeholder(j)))
              => result.value = Substituted(trim(result.prompt), args)
        /\ role[1].prompt = result.value
        /\ role[1].name = result.name

\* An argument that is itself the second placeholder, replaced in turn.
C18_Witness ==
    /\ result.op = "complete_prompt_args"
    /\ result.name = <<"convert", ":", "__ARG2__", ":", "bar">>
    /\ result.prompt = <<"convert", "__ARG1__", "to", "__ARG2__">>
    /\ result.value = <<"convert", "bar", "to", "bar">>

\* The roles of a request whose only System message, if any, is the first
\* message, the others alternating User, Assistant up to a final User.
WellFormed(request) ==
    LET start == IF Len(request) > 0 /\ request[1].role = "System" THEN 1
                 ELSE 0
    IN  /\ Len(request) > start
        /\ \A i \in (start + 1)..Len(request) :
               request[i].role = (IF (i - start) % 2 = 1 THEN "User"
                                  ELSE "Assistant")
        /\ request[Len(request)].role = "User"

\* C21: every request build_emssages builds in a state reachable from
\* Session::new by add_message, compress, clear_messages and update_role is
\* well-formed: a System message only at index 0, then User and Assistant
\* alternating, ending with the new User message; also right after one
\* compression and after two compressions in a row.
C21_RequestWellFormed ==
    result.op = "build_emssages" => WellFormed(result.value)

\* C22: a save that fails leaves the session unchanged: after the failed
\* write of a dirty session every session field, path included, has the
\* value it had before the call, so a session that was never written
\* successfully has no path.
C22_FailedSaveChangesNothing ==
    [][/\ (result'.op = "save" /\ ~result'.ok) =>
              UNCHANGED <<sessionVars, files>>
       /\ files' = {} => path' = None]_vars

====
